---- MODULE Spec2Model ----
(***************************************************************************)
(* Model of src/main.rs: the /getCountry handler (get_country) and the     *)
(* lazily initialised reference table COUNTRY_DATA.                        *)
(*                                                                         *)
(* Text is modelled as a sequence of characters, each character a          *)
(* one-element TLA+ string.  Two non-ASCII characters are given names:     *)
(* "NBSP" is U+00A0 (Unicode White_Space, so str::trim removes it) and     *)
(* "KELVIN" is U+212A (whose Unicode lowercase mapping is "k").  A flag    *)
(* glyph is written as the two letters of its regional-indicator pair      *)
(* ("JP" stands for the glyph made of regional indicators J and P).        *)
(***************************************************************************)
EXTENDS Integers, Sequences, FiniteSets, TLC

VARIABLES
  cell,       \* the Lazy cell behind COUNTRY_DATA: its state and its value
  building,   \* the closure's local `data` map while the initializer runs
  nextInsert, \* index into INSERTS of the closure's next data.insert
  initRuns,   \* how many times the initializer closure has been started
  pc,         \* per worker: position inside get_country
  based,      \* per worker: params.based of the request being served
  countries,  \* per worker: the tokens of `countries` not yet iterated
  results,    \* per worker: the local `results` vector
  seenData,   \* per worker: the tables the worker's lookups dereferenced
  waited,     \* the workers that found the cell being initialised
  served,     \* number of requests accepted so far
  history,    \* the responses sent so far, as <<based, results>> pairs
  arg,        \* direct call: the argument string
  gen,        \* direct call: how arg was put together (pads and words)
  called,     \* direct call: whether get_country has returned
  ret,        \* direct call: the returned results
  toks        \* direct call: the `countries` vector the call built

vars ==
  << cell, building, nextInsert, initRuns, pc, based, countries, results,
     seenData, waited, served, history, arg, gen, called, ret, toks >>

srvVars ==
  << cell, building, nextInsert, initRuns, pc, based, countries, results,
     seenData, waited, served, history >>

fnVars ==
  << arg, gen, called, ret, toks >>

----------------------------------------------------------------------------
(* Characters *)

UpperLetters ==
  <<"A","B","C","D","E","F","G","H","I","J","K","L","M","N","O","P","Q","R","S","T","U","V","W","X","Y","Z">>

LowerLetters ==
  <<"a","b","c","d","e","f","g","h","i","j","k","l","m","n","o","p","q","r","s","t","u","v","w","x","y","z">>

\* char::is_whitespace, restricted to the characters of the model
Whitespace ==
  {" ", "\t", "NBSP"}

\* char::to_lowercase on one character
LowerChar(c) ==
  IF \E i \in 1..26 : UpperLetters[i] = c
    THEN LowerLetters[CHOOSE i \in 1..26 : UpperLetters[i] = c]
    ELSE IF c = "KELVIN" THEN "k" ELSE c

to_lowercase_identity(s) ==
  s

\* str::to_lowercase (line 65)
to_lowercase(s) ==
  [i \in 1..Len(s) |-> LowerChar(s[i])]

RECURSIVE trim_start(_)
\* str::trim_start: drop leading whitespace
trim_start(s) ==
  IF s # <<>> /\ Head(s) \in Whitespace THEN trim_start(Tail(s)) ELSE s

RECURSIVE trim_end(_)
\* str::trim_end: drop trailing whitespace
trim_end(s) ==
  IF s # <<>> /\ s[Len(s)] \in Whitespace
    THEN trim_end(SubSeq(s, 1, Len(s) - 1))
    ELSE s

trim_leading_only(s) ==
  trim_start(s)

\* str::trim (line 62)
trim(s) ==
  trim_end(trim_start(s))

\* position of the first comma of s, 0 when there is none
FirstComma(s) ==
  IF \E i \in 1..Len(s) : s[i] = ","
    THEN CHOOSE i \in 1..Len(s) : s[i] = "," /\ \A j \in 1..(i - 1) : s[j] # ","
    ELSE 0

RECURSIVE split(_)
\* str::split(',') (line 62): the pieces between commas, empty pieces kept
split(s) ==
  IF FirstComma(s) = 0
    THEN << s >>
    ELSE << SubSeq(s, 1, FirstComma(s) - 1) >>
           \o split(SubSeq(s, FirstComma(s) + 1, Len(s)))

split_and_trim_skip_empty(s) ==
  SelectSeq([i \in 1..Len(split(s)) |-> trim(split(s)[i])], LAMBDA x : x # << >>)

\* params.based.split(',').map(|s| s.trim()).collect() (line 62)
split_and_trim(s) ==
  [i \in 1..Len(split(s)) |-> trim(split(s)[i])]

----------------------------------------------------------------------------
(* The reference table *)

\* the data.insert calls of the initializer closure, in source order
INSERTS ==
  << <<<<"j","a","p","a","n">>, "JP", "JPY">>,
     <<<<"k","o","r","e","a">>, "KR", "KRW">>,
     <<<<"s","o","u","t","h"," ","k","o","r","e","a">>, "KR", "KRW">>,
     <<<<"u","n","i","t","e","d"," ","s","t","a","t","e","s">>, "US", "USD">>,
     <<<<"u","s","a">>, "US", "USD">>,
     <<<<"u","n","i","t","e","d"," ","k","i","n","g","d","o","m">>, "GB", "GBP">>,
     <<<<"u","k">>, "GB", "GBP">>,
     <<<<"c","h","i","n","a">>, "CN", "CNY">>,
     <<<<"g","e","r","m","a","n","y">>, "DE", "EUR">>,
     <<<<"f","r","a","n","c","e">>, "FR", "EUR">>,
     <<<<"c","a","n","a","d","a">>, "CA", "CAD">>,
     <<<<"a","u","s","t","r","a","l","i","a">>, "AU", "AUD">>,
     <<<<"b","r","a","z","i","l">>, "BR", "BRL">>,
     <<<<"i","n","d","i","a">>, "IN", "INR">>,
     <<<<"m","e","x","i","c","o">>, "MX", "MXN">>,
     <<<<"s","i","n","g","a","p","o","r","e">>, "SG", "SGD">>,
     <<<<"s","w","i","t","z","e","r","l","a","n","d">>, "CH", "CHF">>,
     <<<<"s","w","e","d","e","n">>, "SE", "SEK">>,
     <<<<"n","o","r","w","a","y">>, "NO", "NOK">>,
     <<<<"d","e","n","m","a","r","k">>, "DK", "DKK">> >>

\* HashMap::new()
EmptyMap ==
  << >>

\* HashMap::insert: add the key or overwrite its value
insert(m, k, v) ==
  [x \in (DOMAIN m) \cup {k} |-> IF x = k THEN v ELSE m[x]]

\* HashMap::get: <<v>> for Some(v), <<>> for None
get(m, k) ==
  IF k \in DOMAIN m THEN << m[k] >> ELSE << >>

RECURSIVE InsertFirst(_, _)
\* the closure's `data` after its first n inserts
InsertFirst(n, ins) ==
  IF n = 0
    THEN EmptyMap
    ELSE insert(InsertFirst(n - 1, ins), ins[n][1], << ins[n][2], ins[n][3] >>)

\* the value the closure returns (line 55)
COUNTRY_DATA ==
  InsertFirst(Len(INSERTS), INSERTS)

----------------------------------------------------------------------------
(* get_country *)

\* CountryInfo { country, flag, currency_code } (lines 68-72)
CountryInfo(country, flag, currency_code) ==
  [country |-> country, flag |-> flag, currencyCode |-> currency_code]

loop_body_prepend(res, country_name, data) ==
  LET found == get(data, to_lowercase(country_name))
  IN  IF found # << >>
        THEN << CountryInfo(country_name, found[1][1], found[1][2]) >> \o res
        ELSE res

loop_body_placeholder(res, country_name, data) ==
  LET found == get(data, to_lowercase(country_name))
  IN  IF found # << >>
        THEN Append(res, CountryInfo(country_name, found[1][1], found[1][2]))
        ELSE Append(res, CountryInfo(country_name, "", ""))

loop_body_lowered_country(res, country_name, data) ==
  LET country_lower == to_lowercase(country_name)
      found == get(data, country_lower)
  IN  IF found # << >>
        THEN Append(res, CountryInfo(country_lower, found[1][1], found[1][2]))
        ELSE res

loop_body_dedup(res, country_name, data) ==
  LET found == get(data, to_lowercase(country_name))
  IN  IF found # << >> /\ \A j \in 1..Len(res) : res[j].flag # found[1][1]
        THEN Append(res, CountryInfo(country_name, found[1][1], found[1][2]))
        ELSE res

\* one iteration of the for loop (lines 65-73)
loop_body(res, country_name, data) ==
  LET country_lower == to_lowercase(country_name)
      found == get(data, country_lower)
  IN  IF found # << >>
        THEN Append(res, CountryInfo(country_name, found[1][1], found[1][2]))
        ELSE res

RECURSIVE for_loop(_, _, _)
\* the for loop over `countries` (lines 64-74)
for_loop(cs, res, data) ==
  IF cs = << >>
    THEN res
    ELSE for_loop(Tail(cs), loop_body(res, Head(cs), data), data)

\* get_country run alone against the initialised table (lines 58-77)
get_country(s) ==
  for_loop(split_and_trim(s), << >>, COUNTRY_DATA)

----------------------------------------------------------------------------
(* Bounds *)

NumWorkers ==
  2

MaxRequests ==
  3

MaxTokens ==
  3

Workers ==
  1..NumWorkers

NoKey ==
  << "-" >>

\* the based values the served requests carry
ServerInputs ==
  { <<"J","A","P","A","N">>,
    <<"u","k",","," ","x",",","u","s","a","\t">>,
    <<"x">> }

----------------------------------------------------------------------------
(* The server: requests handled by concurrent workers *)

InitServer ==
  /\ cell = [state |-> "uninit", value |-> EmptyMap]
  /\ building = EmptyMap
  /\ nextInsert = 1
  /\ initRuns = 0
  /\ pc = [t \in Workers |-> "idle"]
  /\ based = [t \in Workers |-> << >>]
  /\ countries = [t \in Workers |-> << >>]
  /\ results = [t \in Workers |-> << >>]
  /\ seenData = [t \in Workers |-> {}]
  /\ waited = {}
  /\ served = 0
  /\ history = << >>

\* a request reaches get_country on worker t with params.based = s; lines 59
\* and 62 build a fresh results vector and the trimmed tokens
Start(t, s) ==
  /\ pc[t] = "idle"
  /\ served < MaxRequests
  /\ served' = served + 1
  /\ based' = [based EXCEPT ![t] = s]
  /\ results' = [results EXCEPT ![t] = << >>]
  /\ countries' = [countries EXCEPT ![t] = split_and_trim(s)]
  /\ pc' = [pc EXCEPT ![t] = "loop"]
  /\ UNCHANGED << cell, building, nextInsert, initRuns, seenData, waited,
                  history >>

ForceBegin_no_once(t) ==
  /\ pc[t] = "loop"
  /\ countries[t] # << >>
  /\ cell.state \in {"uninit", "running"}
  /\ cell' = [cell EXCEPT !.state = "running"]
  /\ building' = EmptyMap
  /\ nextInsert' = 1
  /\ initRuns' = initRuns + 1
  /\ pc' = [pc EXCEPT ![t] = "init"]
  /\ UNCHANGED << based, countries, results, seenData, waited, served,
                  history >>

\* line 67, COUNTRY_DATA dereferenced while the cell is empty: this worker
\* takes the cell and starts the closure (line 31)
ForceBegin(t) ==
  /\ pc[t] = "loop"
  /\ countries[t] # << >>
  /\ cell.state = "uninit"
  /\ cell' = [cell EXCEPT !.state = "running"]
  /\ building' = EmptyMap
  /\ nextInsert' = 1
  /\ initRuns' = initRuns + 1
  /\ pc' = [pc EXCEPT ![t] = "init"]
  /\ UNCHANGED << based, countries, results, seenData, waited, served,
                  history >>

\* line 67, COUNTRY_DATA dereferenced while another worker runs the closure:
\* this worker parks until the cell is published
ForceWait(t) ==
  /\ pc[t] = "loop"
  /\ countries[t] # << >>
  /\ cell.state = "running"
  /\ pc' = [pc EXCEPT ![t] = "wait"]
  /\ waited' = waited \cup {t}
  /\ UNCHANGED << cell, building, nextInsert, initRuns, based, countries,
                  results, seenData, served, history >>

\* a parked worker resumes once the cell holds its value
ForceWake(t) ==
  /\ pc[t] = "wait"
  /\ cell.state = "done"
  /\ pc' = [pc EXCEPT ![t] = "loop"]
  /\ UNCHANGED << cell, building, nextInsert, initRuns, based, countries,
                  results, seenData, waited, served, history >>

InitInsert_swapped_fields(t) ==
  /\ pc[t] = "init"
  /\ nextInsert <= Len(INSERTS)
  /\ building' = insert(building, INSERTS[nextInsert][1],
                        << INSERTS[nextInsert][3], INSERTS[nextInsert][2] >>)
  /\ nextInsert' = nextInsert + 1
  /\ UNCHANGED << cell, initRuns, pc, based, countries, results, seenData,
                  waited, served, history >>

\* one data.insert of the closure (lines 34-53)
InitInsert(t) ==
  /\ pc[t] = "init"
  /\ nextInsert <= Len(INSERTS)
  /\ building' = insert(building, INSERTS[nextInsert][1],
                        << INSERTS[nextInsert][2], INSERTS[nextInsert][3] >>)
  /\ nextInsert' = nextInsert + 1
  /\ UNCHANGED << cell, initRuns, pc, based, countries, results, seenData,
                  waited, served, history >>

\* the closure returns `data` (line 55) and the cell publishes it
InitReturn(t) ==
  /\ pc[t] = "init"
  /\ nextInsert > Len(INSERTS)
  /\ cell' = [state |-> "done", value |-> building]
  /\ pc' = [pc EXCEPT ![t] = "loop"]
  /\ UNCHANGED << building, nextInsert, initRuns, based, countries, results,
                  seenData, waited, served, history >>

Lookup_or_insert(t) ==
  /\ pc[t] = "loop"
  /\ countries[t] # << >>
  /\ cell.state = "done"
  /\ LET k == to_lowercase(Head(countries[t]))
         m == IF k \in DOMAIN cell.value
                THEN cell.value
                ELSE insert(cell.value, k, << "", "" >>)
     IN  /\ cell' = [cell EXCEPT !.value = m]
         /\ seenData' = [seenData EXCEPT ![t] = @ \cup {cell.value}]
         /\ results' = [results EXCEPT ![t] = loop_body(@, Head(countries[t]), m)]
  /\ countries' = [countries EXCEPT ![t] = Tail(@)]
  /\ UNCHANGED << building, nextInsert, initRuns, pc, based, waited, served,
                  history >>

\* one loop iteration against the initialised table (lines 64-73)
Lookup(t) ==
  /\ pc[t] = "loop"
  /\ countries[t] # << >>
  /\ cell.state = "done"
  /\ seenData' = [seenData EXCEPT ![t] = @ \cup {cell.value}]
  /\ results' = [results EXCEPT ![t] = loop_body(@, Head(countries[t]), cell.value)]
  /\ countries' = [countries EXCEPT ![t] = Tail(@)]
  /\ UNCHANGED << cell, building, nextInsert, initRuns, pc, based, waited,
                  served, history >>

\* line 76: the loop is over and the response is returned
Reply(t) ==
  /\ pc[t] = "loop"
  /\ countries[t] = << >>
  /\ history' = Append(history, << based[t], results[t] >>)
  /\ pc' = [pc EXCEPT ![t] = "idle"]
  /\ UNCHANGED << cell, building, nextInsert, initRuns, based, countries,
                  results, seenData, waited, served >>

----------------------------------------------------------------------------
(* One direct call of get_country *)

\* the pads put around a word
Pads ==
  { [lead |-> << >>, trail |-> << >>],
    [lead |-> << " ", "\t" >>, trail |-> << >>],
    [lead |-> << " " >>, trail |-> << "NBSP" >>] }

\* the words of the generated inputs, each with the table key it is a
\* case variant of (NoKey when it is a variant of none)
Words ==
  { [text |-> <<"j","a","p","a","n">>, key |-> <<"j","a","p","a","n">>],
    [text |-> <<"J","a","P","A","N">>, key |-> <<"j","a","p","a","n">>],
    [text |-> <<"k","o","r","e","a">>, key |-> <<"k","o","r","e","a">>],
    [text |-> <<"S","o","u","t","h"," ","K","o","r","e","a">>,
     key |-> <<"s","o","u","t","h"," ","k","o","r","e","a">>],
    [text |-> <<"j","a"," ","p","a","n">>, key |-> NoKey],
    [text |-> <<"u","n","k","n","o","w","n">>, key |-> NoKey],
    [text |-> << >>, key |-> NoKey] }

RawTokens ==
  { [lead |-> p.lead, text |-> w.text, key |-> w.key, trail |-> p.trail] :
      p \in Pads, w \in Words }

\* inputs of one to MaxTokens comma-separated raw tokens
TokenInputs ==
  UNION { [1..n -> RawTokens] : n \in 1..MaxTokens }

UpperChar(c) ==
  IF \E i \in 1..26 : LowerLetters[i] = c
    THEN UpperLetters[CHOOSE i \in 1..26 : LowerLetters[i] = c]
    ELSE c

\* the table keys written in every mix of upper and lower case
CaseInputs ==
  UNION { { << [lead |-> << >>,
                text |-> [i \in 1..Len(INSERTS[n][1]) |->
                            IF m[i] THEN UpperChar(INSERTS[n][1][i])
                                    ELSE INSERTS[n][1][i]],
                key |-> INSERTS[n][1],
                trail |-> << >>] >> :
              m \in [1..Len(INSERTS[n][1]) -> BOOLEAN] } :
          n \in 1..Len(INSERTS) }

RECURSIVE Flatten(_)
\* the text of a generated input: raw tokens joined by commas
Flatten(g) ==
  IF g = << >>
    THEN << >>
    ELSE LET raw == g[Len(g)].lead \o g[Len(g)].text \o g[Len(g)].trail
         IN  IF Len(g) = 1
               THEN raw
               ELSE Flatten(SubSeq(g, 1, Len(g) - 1)) \o << "," >> \o raw

InitDirect ==
  /\ called = FALSE
  /\ ret = << >>
  /\ toks = << >>

\* the handler called once with based = arg (lines 58-77)
Call ==
  /\ ~called
  /\ called' = TRUE
  /\ toks' = split_and_trim(arg)
  /\ ret' = get_country(arg)
  /\ UNCHANGED << arg, gen >>
  /\ UNCHANGED srvVars

----------------------------------------------------------------------------
(* Specifications *)

Init ==
  /\ InitServer
  /\ InitDirect
  /\ gen = << >>
  /\ arg = << >>

Next ==
  \/ \E t \in Workers, s \in ServerInputs : Start(t, s) /\ UNCHANGED fnVars
  \/ \E t \in Workers : ForceBegin(t) /\ UNCHANGED fnVars
  \/ \E t \in Workers : ForceWait(t) /\ UNCHANGED fnVars
  \/ \E t \in Workers : ForceWake(t) /\ UNCHANGED fnVars
  \/ \E t \in Workers : InitInsert(t) /\ UNCHANGED fnVars
  \/ \E t \in Workers : InitReturn(t) /\ UNCHANGED fnVars
  \/ \E t \in Workers : Lookup(t) /\ UNCHANGED fnVars
  \/ \E t \in Workers : Reply(t) /\ UNCHANGED fnVars

Spec ==
  Init /\ [][Next]_vars

InitTokens ==
  /\ InitServer
  /\ InitDirect
  /\ gen \in TokenInputs
  /\ arg = Flatten(gen)

NextDirect ==
  Call

SpecTokens ==
  InitTokens /\ [][NextDirect]_vars

InitCase ==
  /\ InitServer
  /\ InitDirect
  /\ gen \in CaseInputs
  /\ arg = Flatten(gen)

SpecCase ==
  InitCase /\ [][NextDirect]_vars

----------------------------------------------------------------------------
(* The documented reference table and what the documentation expects *)

\* key, flag, currency code: the literal table of the specification
SpecTable ==
  { <<<<"j","a","p","a","n">>, "JP", "JPY">>,
    <<<<"k","o","r","e","a">>, "KR", "KRW">>,
    <<<<"s","o","u","t","h"," ","k","o","r","e","a">>, "KR", "KRW">>,
    <<<<"u","n","i","t","e","d"," ","s","t","a","t","e","s">>, "US", "USD">>,
    <<<<"u","s","a">>, "US", "USD">>,
    <<<<"u","n","i","t","e","d"," ","k","i","n","g","d","o","m">>, "GB", "GBP">>,
    <<<<"u","k">>, "GB", "GBP">>,
    <<<<"c","h","i","n","a">>, "CN", "CNY">>,
    <<<<"g","e","r","m","a","n","y">>, "DE", "EUR">>,
    <<<<"f","r","a","n","c","e">>, "FR", "EUR">>,
    <<<<"c","a","n","a","d","a">>, "CA", "CAD">>,
    <<<<"a","u","s","t","r","a","l","i","a">>, "AU", "AUD">>,
    <<<<"b","r","a","z","i","l">>, "BR", "BRL">>,
    <<<<"i","n","d","i","a">>, "IN", "INR">>,
    <<<<"m","e","x","i","c","o">>, "MX", "MXN">>,
    <<<<"s","i","n","g","a","p","o","r","e">>, "SG", "SGD">>,
    <<<<"s","w","i","t","z","e","r","l","a","n","d">>, "CH", "CHF">>,
    <<<<"s","w","e","d","e","n">>, "SE", "SEK">>,
    <<<<"n","o","r","w","a","y">>, "NO", "NOK">>,
    <<<<"d","e","n","m","a","r","k">>, "DK", "DKK">> }

SpecKeys ==
  { r[1] : r \in SpecTable }

SpecFlag(k) ==
  (CHOOSE r \in SpecTable : r[1] = k)[2]

SpecCode(k) ==
  (CHOOSE r \in SpecTable : r[1] = k)[3]

\* the generated tokens that name a table key, in input order
Matching(g) ==
  SelectSeq(g, LAMBDA tok : tok.key # NoKey)

\* the entries the matching tokens are documented to produce
Expected(g) ==
  [j \in 1..Len(Matching(g)) |->
     [country |-> Matching(g)[j].text,
      flag |-> SpecFlag(Matching(g)[j].key),
      currencyCode |-> SpecCode(Matching(g)[j].key)]]

RECURSIVE IsSubsequence(_, _)
IsSubsequence(a, b) ==
  IF a = << >> THEN TRUE
  ELSE IF b = << >> THEN FALSE
  ELSE IF Head(a) = Head(b) THEN IsSubsequence(Tail(a), Tail(b))
  ELSE IsSubsequence(a, Tail(b))

CountryValues(r) ==
  [j \in 1..Len(r) |-> r[j].country]

TokenTexts(g) ==
  [i \in 1..Len(g) |-> g[i].text]

\* the generated input with every pad removed
Bare(g) ==
  [i \in 1..Len(g) |-> [g[i] EXCEPT !.lead = << >>, !.trail = << >>]]

InnerWhitespace(x) ==
  \E i \in 1..Len(x) : x[i] \in Whitespace

NumCommas(s) ==
  Cardinality({ i \in 1..Len(s) : s[i] = "," })

----------------------------------------------------------------------------
(* Claims *)

\* C1: for every table key in every mix of upper and lower case, get_country
\* returns exactly one entry, carrying the table's flag and currency code
\* for that key.
C1_CaseInsensitiveKey ==
  called =>
    /\ Len(ret) = 1
    /\ ret[1].flag = SpecFlag(gen[1].key)
    /\ ret[1].currencyCode = SpecCode(gen[1].key)

C1_Witness ==
  /\ called
  /\ gen[1].text # gen[1].key
  /\ gen[1].text # [i \in 1..Len(gen[1].key) |-> UpperChar(gen[1].key[i])]
  /\ Len(ret) = 1
  /\ ret[1].currencyCode = "GBP"

\* C2: the country values of the result are a subsequence of the trimmed
\* input tokens, in input order.
C2_InputOrder ==
  called => IsSubsequence(CountryValues(ret), TokenTexts(gen))

C2_Witness ==
  /\ called
  /\ Len(gen) = 3
  /\ Len(ret) = 2
  /\ ret[1].country # ret[2].country
  /\ gen[1].key = NoKey

\* C3: the result holds exactly the entries of the matching tokens; tokens
\* that match no key add nothing, so an input without a matching token gives
\* an empty result.
C3_UnmatchedSkipped ==
  called => ret = Expected(gen)

C3_Witness ==
  /\ called
  /\ Len(gen) = 3
  /\ gen[1].key # NoKey
  /\ gen[2].key = NoKey
  /\ gen[2].text # << >>
  /\ gen[3].key # NoKey
  /\ Len(ret) = 2

\* C4: the country field of the j-th entry is the j-th matching token,
\* trimmed and with its casing unchanged.
C4_CountryIsTrimmedOriginal ==
  called =>
    /\ Len(ret) <= Len(Matching(gen))
    /\ \A j \in 1..Len(ret) : ret[j].country = Matching(gen)[j].text

C4_Witness ==
  /\ called
  /\ Len(gen) = 1
  /\ gen[1].lead # << >>
  /\ gen[1].trail # << >>
  /\ gen[1].key # NoKey
  /\ gen[1].text # gen[1].key
  /\ Len(ret) = 1
  /\ ret[1].country = gen[1].text

\* C5: pads of whitespace around the tokens do not change the result, while
\* whitespace inside a token stays part of the lookup key.
C5_PadsIgnored ==
  called =>
    /\ ret = get_country(Flatten(Bare(gen)))
    /\ \A i \in 1..Len(gen) :
         InnerWhitespace(gen[i].text) =>
           ((\E j \in 1..Len(ret) : ret[j].country = gen[i].text)
              <=> gen[i].key # NoKey)

C5_Witness ==
  /\ called
  /\ Len(gen) = 2
  /\ gen[1].lead # << >> /\ gen[1].trail # << >> /\ gen[1].key # NoKey
  /\ gen[2].lead # << >> /\ InnerWhitespace(gen[2].text) /\ gen[2].key = NoKey
  /\ Len(ret) = 1

\* C6: the empty input is one empty token and gives an empty result; empty
\* and whitespace-only tokens never produce an entry.
C6_EmptyTokens ==
  called =>
    /\ arg = << >> => (toks = << << >> >> /\ ret = << >>)
    /\ \A j \in 1..Len(ret) : ret[j].country # << >>
    /\ Len(ret) <= Cardinality({ i \in 1..Len(gen) : gen[i].text # << >> })
    /\ Len(toks) = NumCommas(arg) + 1

C6_Witness ==
  /\ called
  /\ arg = << >>
  /\ toks = << << >> >>
  /\ ret = << >>

\* C7: a response depends on the request's input only: two responses to the
\* same input are equal whatever was served in between, and a step never
\* changes the published table.
C7_PureFunction ==
  /\ [](\A i, j \in 1..Len(history) :
          history[i][1] = history[j][1] => history[i][2] = history[j][2])
  /\ [][cell.state = "done" => cell' = cell]_vars

C7_Witness ==
  /\ Len(history) = 3
  /\ history[1][1] = history[3][1]
  /\ history[2][1] # history[1][1]
  /\ history[1][2] # << >>
  /\ history[2][2] = << >>

\* C8: the published table is the documented one: its 20 keys with their
\* flags and codes, keys distinct, lowercase and trimmed, aliases agreeing.
C8_TableAsDocumented ==
  cell.state = "done" =>
    /\ { << k, cell.value[k][1], cell.value[k][2] >> : k \in DOMAIN cell.value }
         = SpecTable
    /\ Cardinality(DOMAIN cell.value) = 20
    /\ Cardinality(DOMAIN cell.value) = Len(INSERTS)
    /\ \A k \in DOMAIN cell.value : to_lowercase(k) = k /\ trim(k) = k
    /\ cell.value[<<"k","o","r","e","a">>]
         = cell.value[<<"s","o","u","t","h"," ","k","o","r","e","a">>]
    /\ cell.value[<<"u","s","a">>]
         = cell.value[<<"u","n","i","t","e","d"," ","s","t","a","t","e","s">>]
    /\ cell.value[<<"u","k">>]
         = cell.value[<<"u","n","i","t","e","d"," ","k","i","n","g","d","o","m">>]

C8_Witness ==
  /\ cell.state = "done"
  /\ \E t \in Workers : seenData[t] # {}

\* C9: under every interleaving the closure runs at most once, a lookup only
\* ever sees the complete table, the published table never differs from it,
\* and every response equals that of the request run alone.
C9_InitOnce ==
  /\ initRuns <= 1
  /\ cell.state # "uninit" => initRuns = 1
  /\ cell.state = "done" => cell.value = COUNTRY_DATA
  /\ \A t \in Workers : seenData[t] \subseteq {COUNTRY_DATA}
  /\ \A i \in 1..Len(history) : history[i][2] = get_country(history[i][1])

C9_Witness ==
  /\ waited # {}
  /\ cell.state = "done"
  /\ Len(history) >= 2
  /\ \E i, j \in 1..Len(history) : history[i][2] # history[j][2]
  /\ \A t \in Workers : seenData[t] # {}

\* C10: no de-duplication: the result has one entry per token naming a table
\* key, repeated names and aliases included, and never more entries than
\* commas plus one.
C10_OneEntryPerMatch ==
  called =>
    /\ Len(ret) = Len(Matching(gen))
    /\ Len(ret) <= NumCommas(arg) + 1

C10_Witness ==
  /\ called
  /\ Len(gen) = 3
  /\ gen[1].key = <<"k","o","r","e","a">>
  /\ gen[2].key = <<"s","o","u","t","h"," ","k","o","r","e","a">>
  /\ gen[3].key = <<"k","o","r","e","a">>
  /\ Len(ret) = 3

====
